---- MODULE Spec2Model ----
(***************************************************************************)
(* Partitioned bulk-load pipeline of gstria-ppg-batch-load.                *)
(*                                                                         *)
(* Three variants of import_single_file_with_lock are modelled:            *)
(*   "main"     gstria_ppg_batch_load/main.py          (driven by its cli) *)
(*   "collatec" gstria_ppg_batch_load_collatec/main.py (driven by its cli) *)
(*   "loader"   gstria_ppg_batch_load/loader.py        (called directly)   *)
(* Text (psql output, SQL statements, file bytes) is a sequence of         *)
(* one-character strings, so that formatting and parsing are computed.     *)
(***************************************************************************)
EXTENDS Integers, Sequences, FiniteSets, TLC

VARIABLES
    variant,              \* which import_single_file_with_lock is running
    enable_pk_reset,      \* loader.py parameter; fixed by the other variants
    clean,                \* cli option --clean/--no-clean
    dir_files,            \* names of the *.tbl files in the input directory
    db_seq,               \* << value >> of the geomesa_wa_seq row, or NoRecord
    db_indexes,           \* auxiliary indexes present on the partition
    db_pk,                \* TRUE iff the primary-key constraint is present
    db_rows,              \* number of committed rows of the table
    lock_held,            \* TRUE while a transfer session holds the table lock
    pc,                   \* position of the cli / of the file attempt
    tbl_files,            \* sorted(tbl_dir.glob("*.tbl"))
    file_idx,             \* loop index i of the cli (1-based)
    success_count,
    fail_count,
    total_rows_imported,
    verify,               \* outcome of the final reconciliation
    partition_name,       \* resolved (quoted) partition name
    lines,                \* rows of the enumeration still to be processed
    restore_sqls,         \* local list of backup_and_drop_indexes
    stored_index_sqls,    \* local of import_single_file_with_lock
    file_content,         \* bytes of the file being streamed
    file_pos,             \* number of bytes read so far
    rows_in_file,
    has_trailing_newline,
    payload,              \* bytes written between the COPY command and "\."
    stdin,                \* everything written to proc.stdin, in order
    restore_pos,          \* next statement of restore_indexes
    restore_ctx,          \* which call site invoked restore_indexes
    result,               \* what import_single_file_with_lock returned
    stmts,                \* history: statements issued during this attempt
    dropped,              \* history: indexes removed during this attempt
    restore_calls,        \* history: invocations of restore_indexes, this attempt
    attempts,             \* history: files handed to import_single_file_with_lock
    indexes_before,       \* history: auxiliary indexes as this attempt started
    pk_before,            \* history: db_pk as this attempt started
    uncounted,            \* history: rows returned by attempts counted as failed
    cleared               \* history: outcome of the clear statement

vars == << variant, enable_pk_reset, clean, dir_files, db_seq, db_indexes, db_pk,
           db_rows, lock_held, pc, tbl_files, file_idx, success_count, fail_count,
           total_rows_imported, verify, partition_name, lines, restore_sqls,
           stored_index_sqls, file_content, file_pos, rows_in_file,
           has_trailing_newline, payload, restore_pos, restore_ctx, result,
           stmts, dropped, restore_calls, attempts, indexes_before, cleared,
           stdin, pk_before, uncounted >>

configVars == << variant, enable_pk_reset, clean, dir_files, db_seq >>
dbVars     == << db_indexes, db_pk, db_rows, lock_held >>
cliVars    == << tbl_files, file_idx, success_count, fail_count,
                 total_rows_imported, verify >>
copyVars   == << file_content, file_pos, rows_in_file, has_trailing_newline, payload,
                 stdin >>
suspendVars == << lines, restore_sqls >>

(***************************************************************************)
(* Bounds of the model.                                                    *)
(***************************************************************************)
MaxFileLen == 3        \* longest file content, in bytes
ChunkSize  == 2        \* bytes asked of one f.read (1024 * 1024 in the code)

NoRecord == << >>                   \* no geomesa_wa_seq row for the table
SeqValues == {7, 42, 100, 1000}     \* sequence values the record may hold
InitialRows == {2}                  \* rows in the table before the run
Bytes == {"x", "\n"}                \* a data byte or the line terminator
FileNames == { <<"a", "b">>, <<"b">> }  \* the *.tbl files that may exist
TableName == <<"t", "r", "i", "p", "s">>

(***************************************************************************)
(* Text helpers (Python str methods used by the code).                     *)
(***************************************************************************)
NL  == "\n"
Bar == "|"
Whitespace == {"\n", " "}

RECURSIVE Strip(_)
\* str.strip(): leading and trailing whitespace removed
Strip(s) ==
    IF s = << >> THEN << >>
    ELSE IF Head(s) \in Whitespace THEN Strip(Tail(s))
    ELSE IF s[Len(s)] \in Whitespace THEN Strip(SubSeq(s, 1, Len(s) - 1))
    ELSE s

RECURSIVE FindFirst(_, _, _)
\* index of the first c in s at or after position i, 0 when there is none
FindFirst(s, c, i) ==
    IF i > Len(s) THEN 0
    ELSE IF s[i] = c THEN i
    ELSE FindFirst(s, c, i + 1)

RECURSIVE Split(_, _)
\* str.split(sep): every segment between separators (at least one segment)
Split(s, sep) ==
    LET k == FindFirst(s, sep, 1)
    IN  IF k = 0 THEN << s >>
        ELSE << SubSeq(s, 1, k - 1) >> \o Split(SubSeq(s, k + 1, Len(s)), sep)

\* str.split(sep, 1): cut at the first separator only
SplitOnce(s, sep) ==
    LET k == FindFirst(s, sep, 1)
    IN  IF k = 0 THEN << s >>
        ELSE << SubSeq(s, 1, k - 1), SubSeq(s, k + 1, Len(s)) >>

\* [line for line in stdout.strip().split('\n') if line]
OutputLines(stdout) ==
    SelectSeq(Split(Strip(stdout), NL), LAMBDA l : l # << >>)

RECURSIVE Count(_, _)
\* bytes.count(c)
Count(s, c) ==
    IF s = << >> THEN 0
    ELSE (IF Head(s) = c THEN 1 ELSE 0) + Count(Tail(s), c)

\* Mutant: b'\n' in chunk, instead of chunk.endswith(b'\n')
EndsWithNewline_Contains(chunk) == Count(chunk, NL) > 0

\* bytes.endswith(b'\n')
EndsWithNewline(chunk) == chunk # << >> /\ chunk[Len(chunk)] = NL

RECURSIVE Flatten(_)
Flatten(ss) == IF ss = << >> THEN << >> ELSE Head(ss) \o Flatten(Tail(ss))

RECURSIVE SeqsUpTo(_, _)
\* all sequences over S of length at most n
SeqsUpTo(S, n) ==
    IF n = 0 THEN { << >> }
    ELSE LET shorter == SeqsUpTo(S, n - 1)
         IN  shorter \cup { Append(s, b) : s \in shorter, b \in S }

Contents == SeqsUpTo(Bytes, MaxFileLen)

(***************************************************************************)
(* The database, as far as the pipeline talks to it.                       *)
(***************************************************************************)
PadWidth == 3

Digits == << "0", "1", "2", "3", "4", "5", "6", "7", "8", "9" >>

RECURSIVE ToText(_)
\* value::text of a non-negative integer
ToText(n) ==
    IF n < 10 THEN << Digits[n + 1] >>
    ELSE Append(ToText(n \div 10), Digits[(n % 10) + 1])

RECURSIVE Repeat(_, _)
Repeat(c, n) == IF n <= 0 THEN << >> ELSE << c >> \o Repeat(c, n - 1)

\* Mutant: rpad instead of lpad
Lpad_Right(s, n, fill) ==
    IF Len(s) >= n THEN SubSeq(s, 1, n)
    ELSE s \o Repeat(fill, n - Len(s))

\* lpad(s, n, fill) of PostgreSQL: filled on the left up to n characters,
\* cut to the first n characters when s is longer
Lpad(s, n, fill) ==
    IF Len(s) >= n THEN SubSeq(s, 1, n)
    ELSE Repeat(fill, n - Len(s)) \o s

Quoted(name) == << "\"" >> \o name \o << "\"" >>

\* partition_name_quoted.replace('"', '')
Unquoted(s) == SelectSeq(s, LAMBDA c : c # "\"")

\* stdout of: SELECT '"<T>_wa_' || lpad(value::text, 3, '0') || '"'
\*            FROM geomesa_wa_seq WHERE type_name = '<T>'      (psql -tA)
ResolverOutput(table, seq) ==
    IF seq = NoRecord THEN << >>
    ELSE Quoted(table \o << "_", "w", "a", "_" >> \o Lpad(ToText(seq[1]), PadWidth, "0"))
         \o << NL >>

\* The auxiliary indexes a partition may carry: name and pg_get_indexdef text.
\* The second definition contains the column separator of psql, the third a
\* line terminator (inside a predicate literal).
CatalogSeq ==
    << [name |-> << "a" >>, def |-> << "A" >>],
       [name |-> << "b" >>, def |-> << "B", "|", "w" >>],
       [name |-> << "c" >>, def |-> << "C", "\n", "z" >>] >>

Catalog == { CatalogSeq[i] : i \in 1..Len(CatalogSeq) }

\* The primary-key constraint of the partition: conname and pg_get_constraintdef
PKName == << "p" >>
PKDef  == << "P", "K" >>

\* rows of: SELECT i.relname, pg_get_indexdef(ix.indexrelid) ... AND
\* ix.indisprimary = 'f'   (psql -tA: columns joined by |, one row per line)
EnumOutput(idxs) ==
    Flatten([ i \in 1..Len(CatalogSeq) |->
                IF CatalogSeq[i] \in idxs
                THEN CatalogSeq[i].name \o << Bar >> \o CatalogSeq[i].def \o << NL >>
                ELSE << >> ])

\* Mutant: the lookup reports a constraint whether or not there is one
PKeyOutput_Always(present) == PKName \o << Bar >> \o PKDef \o << NL >>

\* stdout of: SELECT conname, pg_get_constraintdef(oid) ... contype = 'p'
PKeyOutput(present) ==
    IF present THEN PKName \o << Bar >> \o PKDef \o << NL >> ELSE << >>

\* DROP INDEX IF EXISTS "public"."<name>": removes the index of that name
DropIndexEffect(idxs, name) == { i \in idxs : i.name # name }

\* The index a replayed statement creates: the statement must be a complete
\* definition followed by ';' and the index must not exist yet.
Creates(sql, idxs) == { i \in Catalog \ idxs : sql = i.def \o << ";" >> }

(***************************************************************************)
(* sorted(tbl_dir.glob("*.tbl")): ascending by file name, character by     *)
(* character.                                                              *)
(***************************************************************************)
CharRank(c) == IF c = "a" THEN 1 ELSE IF c = "b" THEN 2 ELSE 3

RECURSIVE LexLess(_, _)
LexLess(s, t) ==
    IF t = << >> THEN FALSE
    ELSE IF s = << >> THEN TRUE
    ELSE IF CharRank(Head(s)) # CharRank(Head(t))
         THEN CharRank(Head(s)) < CharRank(Head(t))
    ELSE LexLess(Tail(s), Tail(t))

RECURSIVE Sorted_ByLength(_)
\* Mutant: shorter names first
Sorted_ByLength(S) ==
    IF S = {} THEN << >>
    ELSE LET m == CHOOSE x \in S : \A y \in S \ {x} : Len(x) <= Len(y)
         IN  << m >> \o Sorted_ByLength(S \ {m})

RECURSIVE Sorted(_)
Sorted(S) ==
    IF S = {} THEN << >>
    ELSE LET m == CHOOSE x \in S : \A y \in S \ {x} : LexLess(x, y)
         IN  << m >> \o Sorted(S \ {m})

Variants == {"main", "collatec", "loader"}

NoResult == [args |-> "none", rc |-> 0, rows |-> 0]

Init ==
    /\ variant \in Variants
    /\ enable_pk_reset \in (IF variant = "main" THEN {FALSE}
                            ELSE IF variant = "collatec" THEN {TRUE}
                            ELSE BOOLEAN)
    /\ clean \in (IF variant = "loader" THEN {FALSE} ELSE BOOLEAN)
    /\ dir_files \in { S \in SUBSET FileNames :
                         variant = "loader" => Cardinality(S) = 1 }
    /\ db_seq \in { << v >> : v \in SeqValues } \cup {NoRecord}
    /\ db_indexes \in SUBSET Catalog
    /\ db_pk \in (IF enable_pk_reset THEN BOOLEAN ELSE {TRUE})
    /\ db_rows \in InitialRows
    /\ lock_held = FALSE
    /\ pc = IF variant = "loader" THEN "resolve" ELSE "start"
    /\ tbl_files = IF variant = "loader" THEN Sorted(dir_files) ELSE << >>
    /\ file_idx = IF variant = "loader" THEN 1 ELSE 0
    /\ success_count = 0
    /\ fail_count = 0
    /\ total_rows_imported = 0
    /\ verify = "none"
    /\ partition_name = << >>
    /\ lines = << >>
    /\ restore_sqls = << >>
    /\ stored_index_sqls = << >>
    /\ file_content = << >>
    /\ file_pos = 0
    /\ rows_in_file = 0
    /\ has_trailing_newline = FALSE
    /\ payload = << >>
    /\ stdin = << >>
    /\ restore_pos = 0
    /\ restore_ctx = "none"
    /\ result = NoResult
    /\ stmts = << >>
    /\ dropped = {}
    /\ restore_calls = 0
    /\ attempts = IF variant = "loader" THEN Sorted(dir_files) ELSE << >>
    /\ indexes_before = IF variant = "loader" THEN db_indexes ELSE {}
    /\ pk_before = db_pk
    /\ uncounted = 0
    /\ cleared = "none"

(***************************************************************************)
(* Control-flow helpers.  Every action fixes pc, result and the three      *)
(* restore_* variables through exactly one of them.                        *)
(***************************************************************************)
\* one statement (or session) sent to the database, and whether it succeeded
Stmt(kind, arg, ok) == [k |-> kind, a |-> arg, ok |-> ok]

Issue(kind, arg, ok) == stmts' = Append(stmts, Stmt(kind, arg, ok))

Goto(p) ==
    /\ pc' = p
    /\ UNCHANGED << result, restore_ctx, restore_pos, restore_calls >>

\* return subprocess.CompletedProcess(args=..., returncode=...), row_count
Return(args, rc, rows) ==
    /\ pc' = "returned"
    /\ result' = [args |-> args, rc |-> rc, rows |-> rows]
    /\ UNCHANGED << restore_ctx, restore_pos, restore_calls >>

\* a call of restore_indexes(stored_index_sqls) from the call site ctx
CallRestore(ctx) ==
    /\ pc' = "restore"
    /\ restore_ctx' = ctx
    /\ restore_pos' = 1
    /\ restore_calls' = restore_calls + 1
    /\ UNCHANGED result

\* the locals of a file attempt and its history, as a new call starts
ResetAttempt ==
    /\ partition_name' = << >>
    /\ lines' = << >>
    /\ restore_sqls' = << >>
    /\ stored_index_sqls' = << >>
    /\ file_content' = << >>
    /\ file_pos' = 0
    /\ rows_in_file' = 0
    /\ has_trailing_newline' = FALSE
    /\ payload' = << >>
    /\ stdin' = << >>
    /\ restore_pos' = 0
    /\ restore_ctx' = "none"
    /\ restore_calls' = 0
    /\ result' = NoResult
    /\ stmts' = << >>
    /\ dropped' = {}

attemptLocals == << partition_name, lines, restore_sqls, stored_index_sqls,
                    file_content, file_pos, rows_in_file, has_trailing_newline,
                    payload, stdin >>

(***************************************************************************)
(* cli: clear step and scan.                                               *)
(***************************************************************************)
\* Mutant: the failure of the clear statement is logged and the run goes on
CleanFailed_Continues == Goto("scan")

\* except subprocess.CalledProcessError: sys.exit(1)
CleanFailed == Goto("aborted")

Clean ==
    /\ pc = "start"
    /\ \/ /\ clean
          /\ Issue("DELETE", TableName, TRUE)
          /\ cleared' = "ok"
          /\ db_rows' = 0
          /\ Goto("scan")
       \/ /\ clean
          /\ Issue("DELETE", TableName, FALSE)
          /\ cleared' = "failed"
          /\ UNCHANGED db_rows
          /\ CleanFailed
       \/ /\ ~clean
          /\ UNCHANGED << stmts, db_rows, cleared >>
          /\ Goto("scan")
    /\ UNCHANGED << configVars, db_indexes, db_pk, lock_held, cliVars,
                    attemptLocals, dropped, attempts, indexes_before, pk_before, uncounted >>

\* Mutant: an empty directory is reported like a finished batch
Scan_NoFilesReports ==
    /\ pc = "scan"
    /\ tbl_files' = Sorted(dir_files)
    /\ IF dir_files = {}
       THEN /\ Goto("report")
            /\ UNCHANGED << file_idx, attempts, stmts, indexes_before, pk_before, uncounted >>
       ELSE /\ Goto("resolve")
            /\ file_idx' = 1
            /\ attempts' = << tbl_files'[1] >>
            /\ stmts' = << >>
            /\ indexes_before' = db_indexes
            /\ pk_before' = db_pk
            /\ UNCHANGED uncounted
    /\ UNCHANGED << configVars, dbVars, success_count, fail_count,
                    total_rows_imported, verify, attemptLocals, dropped, cleared >>

Scan ==
    /\ pc = "scan"
    /\ tbl_files' = Sorted(dir_files)
    /\ IF dir_files = {}
       THEN /\ Goto("nofiles")
            /\ UNCHANGED << file_idx, attempts, stmts, indexes_before, pk_before, uncounted >>
       ELSE /\ Goto("resolve")
            /\ file_idx' = 1
            /\ attempts' = << tbl_files'[1] >>
            /\ stmts' = << >>
            /\ indexes_before' = db_indexes
            /\ pk_before' = db_pk
            /\ UNCHANGED uncounted
    /\ UNCHANGED << configVars, dbVars, success_count, fail_count,
                    total_rows_imported, verify, attemptLocals, dropped, cleared >>

(***************************************************************************)
(* Step 1: partition resolution.                                           *)
(***************************************************************************)
\* Mutant: the empty name is not checked
ResolutionRaises_Never(name) == FALSE

\* if not partition_name: raise ValueError(...)
ResolutionRaises(name) == name = << >>

\* args of the CompletedProcess returned when step 1 fails
ResolveStep(v) == IF v = "loader" THEN "part" ELSE "get_partition"

Resolve ==
    /\ pc = "resolve"
    /\ \/ /\ Issue("SEQ", TableName, FALSE)
          /\ Return(ResolveStep(variant), 1, 0)
          /\ UNCHANGED partition_name
       \/ LET name == Strip(ResolverOutput(TableName, db_seq))
          IN  /\ Issue("SEQ", TableName, TRUE)
              /\ IF ResolutionRaises(name)
                 THEN /\ Return(ResolveStep(variant), 1, 0)
                      /\ UNCHANGED partition_name
                 ELSE /\ partition_name' = name
                      /\ Goto("suspend")
    /\ UNCHANGED << configVars, dbVars, cliVars, lines, restore_sqls,
                    stored_index_sqls, copyVars, dropped, attempts,
                    indexes_before, pk_before, uncounted, cleared >>

(***************************************************************************)
(* Step 2: backup_and_drop_indexes.                                        *)
(***************************************************************************)
\* loader.py calls time.time() without importing time
TimeImported(v) == v # "loader"

\* the except clause around step 2 of the caller
SuspendFailed ==
    IF variant = "loader"
    THEN CallRestore("index_fail")
    ELSE Return("drop_index", 1, 0)

\* Mutant: the transfer follows suspend in every mode
SuspendReturns_SkipsReset(snapshot) ==
    /\ stored_index_sqls' = snapshot
    /\ Goto("popen")

\* stored_index_sqls = backup_and_drop_indexes(partition_name) has returned
SuspendReturns(snapshot) ==
    /\ stored_index_sqls' = snapshot
    /\ Goto(IF enable_pk_reset THEN "pk_find" ELSE "popen")

\* Mutant: an empty enumeration is treated as an error
EnumerateEmpty_Raises ==
    /\ SuspendFailed
    /\ UNCHANGED << lines, restore_sqls, stored_index_sqls >>

\* if not lines: return []
EnumerateEmpty ==
    /\ SuspendReturns(<< >>)
    /\ UNCHANGED << lines, restore_sqls >>

\* t0 = time.time() raises NameError before backup_and_drop_indexes is called
LoaderTimeCall ==
    /\ pc = "suspend"
    /\ variant = "loader"
    /\ ~TimeImported(variant)
    /\ SuspendFailed
    /\ UNCHANGED << configVars, dbVars, cliVars, attemptLocals, stmts, dropped,
                    attempts, indexes_before, pk_before, uncounted, cleared >>

Enumerate ==
    /\ pc = "suspend"
    /\ variant = "loader" => TimeImported(variant)
    /\ \/ /\ Issue("ENUM", Unquoted(partition_name), FALSE)
          /\ SuspendFailed
          /\ UNCHANGED << lines, restore_sqls, stored_index_sqls >>
       \/ LET ls == OutputLines(EnumOutput(db_indexes))
          IN  /\ Issue("ENUM", Unquoted(partition_name), TRUE)
              /\ IF ls = << >>
                 THEN EnumerateEmpty
                 ELSE /\ lines' = ls
                      /\ restore_sqls' = << >>
                      /\ Goto("suspend_loop")
                      /\ UNCHANGED stored_index_sqls
    /\ UNCHANGED << configVars, dbVars, cliVars, partition_name, copyVars,
                    dropped, attempts, indexes_before, pk_before, uncounted, cleared >>

\* Mutant: the index is dropped without its definition being recorded
SuspendLoop_NoCapture ==
    /\ pc = "suspend_loop"
    /\ IF lines = << >>
       THEN /\ SuspendReturns(restore_sqls)
            /\ UNCHANGED << lines, restore_sqls >>
       ELSE LET parts == SplitOnce(Head(lines), Bar)
            IN  IF Len(parts) < 2
                THEN /\ lines' = Tail(lines)
                     /\ Goto("suspend_loop")
                     /\ UNCHANGED << restore_sqls, stored_index_sqls >>
                ELSE /\ restore_sqls' = restore_sqls
                     /\ Goto("suspend_drop")
                     /\ UNCHANGED << lines, stored_index_sqls >>
    /\ UNCHANGED << configVars, dbVars, cliVars, partition_name, copyVars,
                    stmts, dropped, attempts, indexes_before, pk_before, uncounted, cleared >>

\* for line in lines: parts = line.split('|', 1); if len(parts) < 2: continue;
\* restore_sqls.append(f"{idx_def};")
SuspendLoop ==
    /\ pc = "suspend_loop"
    /\ IF lines = << >>
       THEN /\ SuspendReturns(restore_sqls)
            /\ UNCHANGED << lines, restore_sqls >>
       ELSE LET parts == SplitOnce(Head(lines), Bar)
            IN  IF Len(parts) < 2
                THEN /\ lines' = Tail(lines)
                     /\ Goto("suspend_loop")
                     /\ UNCHANGED << restore_sqls, stored_index_sqls >>
                ELSE /\ restore_sqls' = Append(restore_sqls, parts[2] \o << ";" >>)
                     /\ Goto("suspend_drop")
                     /\ UNCHANGED << lines, stored_index_sqls >>
    /\ UNCHANGED << configVars, dbVars, cliVars, partition_name, copyVars,
                    stmts, dropped, attempts, indexes_before, pk_before, uncounted, cleared >>

\* run_sql_command(f'DROP INDEX IF EXISTS "public"."{idx_name}";')
SuspendDrop ==
    /\ pc = "suspend_drop"
    /\ LET name == SplitOnce(Head(lines), Bar)[1]
       IN  \/ /\ Issue("DROP", name, FALSE)
              /\ SuspendFailed
              /\ UNCHANGED << db_indexes, dropped, lines >>
           \/ /\ Issue("DROP", name, TRUE)
              /\ db_indexes' = DropIndexEffect(db_indexes, name)
              /\ dropped' = dropped \cup (db_indexes \ db_indexes')
              /\ lines' = Tail(lines)
              /\ Goto("suspend_loop")
    /\ UNCHANGED << configVars, db_pk, db_rows, lock_held, cliVars,
                    partition_name, restore_sqls, stored_index_sqls, copyVars,
                    attempts, indexes_before, pk_before, uncounted, cleared >>

(***************************************************************************)
(* Step 2.5: reset_primary_key (reorganization mode).                      *)
(***************************************************************************)
\* Mutant: the failure of reset_primary_key is logged and the transfer starts
PkFailed_Proceeds == Goto("popen")

\* the except clause around reset_primary_key of the caller
PkFailed == CallRestore("pk_fail")

\* conname and definition, parsed from the row the lookup returned
PkParts == SplitOnce(Strip(PKeyOutput(TRUE)), Bar)

PkFind ==
    /\ pc = "pk_find"
    /\ \/ /\ Issue("PKFIND", Unquoted(partition_name), FALSE)
          /\ PkFailed
       \/ LET output == Strip(PKeyOutput(db_pk))
          IN  /\ Issue("PKFIND", Unquoted(partition_name), TRUE)
              /\ IF output = << >> \/ Len(SplitOnce(output, Bar)) < 2
                 THEN Goto("popen")
                 ELSE Goto("pk_drop")
    /\ UNCHANGED << configVars, dbVars, cliVars, attemptLocals, dropped, attempts,
                    indexes_before, pk_before, uncounted, cleared >>

\* ALTER TABLE ... DROP CONSTRAINT IF EXISTS "<pkey_name>";
PkDrop ==
    /\ pc = "pk_drop"
    /\ \/ /\ Issue("PKDROP", PkParts[1], FALSE)
          /\ PkFailed
          /\ UNCHANGED db_pk
       \/ /\ Issue("PKDROP", PkParts[1], TRUE)
          /\ db_pk' = IF PkParts[1] = PKName THEN FALSE ELSE db_pk
          /\ Goto("pk_add")
    /\ UNCHANGED << configVars, db_indexes, db_rows, lock_held, cliVars,
                    attemptLocals, dropped, attempts, indexes_before, pk_before, uncounted, cleared >>

\* Mutant: the constraint is not recreated after the drop
PkAdd_Skipped ==
    /\ pc = "pk_add"
    /\ Goto("popen")
    /\ UNCHANGED << configVars, dbVars, cliVars, attemptLocals, stmts, dropped,
                    attempts, indexes_before, pk_before, uncounted, cleared >>

\* ALTER TABLE ... ADD CONSTRAINT "<pkey_name>" <pkey_def>;
PkAdd ==
    /\ pc = "pk_add"
    /\ \/ /\ Issue("PKADD", PkParts[2], FALSE)
          /\ PkFailed
          /\ UNCHANGED db_pk
       \/ /\ Issue("PKADD", PkParts[2], TRUE)
          /\ PkParts[2] = PKDef
          /\ ~db_pk
          /\ db_pk' = TRUE
          /\ Goto("popen")
    /\ UNCHANGED << configVars, db_indexes, db_rows, lock_held, cliVars,
                    attemptLocals, dropped, attempts, indexes_before, pk_before, uncounted, cleared >>

(***************************************************************************)
(* Step 3: the transfer session (Popen variant of main.py and collatec).   *)
(***************************************************************************)
Min(a, b) == IF a < b THEN a ELSE b

\* Mutant: the lock statement is written after the COPY command
SqlHeader_LockAfterCopy ==
    << "BEGIN;",
       "COPY public.<partition>(fid,geom,dtg,taxi_id) FROM STDIN WITH (FORMAT text, DELIMITER E'|', NULL E'');",
       "LOCK TABLE public.<table>_wa IN SHARE UPDATE EXCLUSIVE MODE;" >>

\* sql_header: the three statements written before the file's bytes, one
\* element per line (<table> is table_base_name, <partition> partition_name)
SqlHeader ==
    << "BEGIN;",
       "LOCK TABLE public.<table>_wa IN SHARE UPDATE EXCLUSIVE MODE;",
       "COPY public.<partition>(fid,geom,dtg,taxi_id) FROM STDIN WITH (FORMAT text, DELIMITER E'|', NULL E'');" >>

\* sql_footer = b"\\.\nCOMMIT;\n"
SqlFooter == << "\\.", "COMMIT;" >>

\* Mutant: the table lock outlives the session
SessionEnds_KeepsLock == lock_held' = lock_held

\* the psql process has exited (communicate) or was killed (proc.kill()): its
\* connection is closed and the lock of its transaction is released
SessionEnds == lock_held' = FALSE

\* Mutant: rows sent before the failure stay in the table
RolledBack_KeepsSent(rows, sent) == rows + Count(sent, NL)

\* row count of the table after a session that ended without COMMIT: the
\* transaction is rolled back by the server, rows sent in it are discarded
RolledBack(rows, sent) == rows

\* Mutant: the except clause returns the failure without restoring
CopyFailed_NoRestore ==
    /\ SessionEnds
    /\ Return("copy", 1, 0)

\* except Exception: proc.kill(); try: restore_indexes(...) except: pass
CopyFailed ==
    /\ SessionEnds
    /\ CallRestore("copy_fail")

\* the file is closed and the psql process is gone: only rows_in_file is read
\* after the transfer
CloseFile ==
    /\ file_content' = << >>
    /\ file_pos' = 0
    /\ has_trailing_newline' = FALSE
    /\ payload' = << >>
    /\ stdin' = << >>

\* Popen, write of BEGIN; LOCK TABLE ...; COPY ... FROM STDIN; open(file_path)
OpenSession ==
    /\ pc = "popen"
    /\ \/ /\ Issue("SESSION", Unquoted(partition_name), FALSE)
          /\ CopyFailed
          /\ UNCHANGED copyVars
       \/ /\ Issue("SESSION", Unquoted(partition_name), TRUE)
          /\ lock_held' = TRUE
          /\ \E c \in Contents : file_content' = c
          /\ file_pos' = 0
          /\ rows_in_file' = 0
          /\ has_trailing_newline' = FALSE
          /\ payload' = << >>
          /\ stdin' = SqlHeader
          /\ Goto("stream")
    /\ UNCHANGED << configVars, db_indexes, db_pk, db_rows, cliVars,
                    partition_name, lines, restore_sqls, stored_index_sqls,
                    dropped, attempts, indexes_before, pk_before, uncounted, cleared >>

\* while chunk := f.read(1024 * 1024): count, write, remember the last byte
ReadChunk ==
    /\ pc = "stream"
    /\ file_pos < Len(file_content)
    /\ \E k \in 1..Min(ChunkSize, Len(file_content) - file_pos) :
          LET chunk == SubSeq(file_content, file_pos + 1, file_pos + k)
          IN  \/ /\ rows_in_file' = rows_in_file + Count(chunk, NL)
                 /\ payload' = payload \o chunk
                 /\ stdin' = stdin \o chunk
                 /\ has_trailing_newline' = EndsWithNewline(chunk)
                 /\ file_pos' = file_pos + k
                 /\ Goto("stream")
                 /\ UNCHANGED << lock_held, file_content >>
              \/ /\ rows_in_file' = rows_in_file + Count(chunk, NL)
                 /\ CopyFailed
                 /\ CloseFile
    /\ UNCHANGED << configVars, db_indexes, db_pk, db_rows, cliVars,
                    partition_name, lines, restore_sqls, stored_index_sqls,
                    stmts, dropped, attempts, indexes_before, pk_before, uncounted, cleared >>

\* if not has_trailing_newline: write(b'\n'); rows_in_file += 1
\* then write(sql_footer)
FinishPayload ==
    /\ pc = "stream"
    /\ file_pos = Len(file_content)
    /\ \/ /\ IF ~has_trailing_newline
             THEN /\ payload' = Append(payload, NL)
                  /\ stdin' = Append(stdin, NL) \o SqlFooter
                  /\ rows_in_file' = rows_in_file + 1
             ELSE /\ stdin' = stdin \o SqlFooter
                  /\ UNCHANGED << payload, rows_in_file >>
          /\ Goto("communicate")
          /\ UNCHANGED << lock_held, file_content, file_pos, has_trailing_newline >>
       \/ /\ CopyFailed
          /\ CloseFile
          /\ UNCHANGED rows_in_file
    /\ UNCHANGED << configVars, db_indexes, db_pk, db_rows, cliVars,
                    partition_name, lines, restore_sqls, stored_index_sqls,
                    stmts, dropped, attempts, indexes_before, pk_before, uncounted, cleared >>

\* proc.communicate(); returncode 0: the session committed, one row per line
\* of the payload; otherwise CalledProcessError and the transaction is gone
Communicate ==
    /\ pc = "communicate"
    /\ \/ /\ db_rows' = db_rows + Count(payload, NL)
          /\ SessionEnds
          /\ CallRestore("final")
       \/ /\ db_rows' = RolledBack(db_rows, payload)
          /\ CopyFailed
    /\ CloseFile
    /\ UNCHANGED << configVars, db_indexes, db_pk, cliVars, partition_name, lines,
                    restore_sqls, stored_index_sqls, rows_in_file, stmts,
                    dropped, attempts, indexes_before, pk_before, uncounted, cleared >>

(***************************************************************************)
(* Step 4 and the compensation paths: restore_indexes.                     *)
(***************************************************************************)
\* restore_indexes returned normally to the call site restore_ctx
RestoreReturned ==
    IF restore_ctx = "final" THEN Return("copy", 0, rows_in_file)
    ELSE IF restore_ctx = "copy_fail" THEN Return("copy", 1, 0)
    ELSE IF restore_ctx = "pk_fail"
         THEN Return(IF variant = "loader" THEN "index_opt" ELSE "reset_pkey", 1, 0)
    ELSE Return("index_opt", 1, 0)

\* Mutant: step 4 swallows the failure as the except paths do
RestoreRaised_Swallowed == RestoreReturned

\* restore_indexes raised: step 4 reports it, the except paths swallow it
RestoreRaised ==
    IF restore_ctx = "final" THEN Return("restore_index", 1, rows_in_file)
    ELSE RestoreReturned

\* Mutant: the loop returns after its first statement
RestoreStep_StopsEarly ==
    /\ pc = "restore"
    /\ IF restore_pos > Min(1, Len(stored_index_sqls))
       THEN /\ RestoreReturned
            /\ UNCHANGED << db_indexes, stmts >>
       ELSE LET sql == stored_index_sqls[restore_pos]
            IN  \/ /\ Issue("CREATE", sql, TRUE)
                   /\ Creates(sql, db_indexes) # {}
                   /\ db_indexes' = db_indexes \cup Creates(sql, db_indexes)
                   /\ pc' = "restore"
                   /\ restore_pos' = restore_pos + 1
                   /\ UNCHANGED << result, restore_ctx, restore_calls >>
                \/ /\ Issue("CREATE", sql, FALSE)
                   /\ RestoreRaised
                   /\ UNCHANGED db_indexes
    /\ UNCHANGED << configVars, db_pk, db_rows, lock_held, cliVars, attemptLocals,
                    dropped, attempts, indexes_before, pk_before, uncounted, cleared >>

\* if not restore_sqls: return;  for sql in restore_sqls: run_sql_command(sql)
RestoreStep ==
    /\ pc = "restore"
    /\ IF restore_pos > Len(stored_index_sqls)
       THEN /\ RestoreReturned
            /\ UNCHANGED << db_indexes, stmts >>
       ELSE LET sql == stored_index_sqls[restore_pos]
            IN  \/ /\ Issue("CREATE", sql, TRUE)
                   /\ Creates(sql, db_indexes) # {}
                   /\ db_indexes' = db_indexes \cup Creates(sql, db_indexes)
                   /\ pc' = "restore"
                   /\ restore_pos' = restore_pos + 1
                   /\ UNCHANGED << result, restore_ctx, restore_calls >>
                \/ /\ Issue("CREATE", sql, FALSE)
                   /\ RestoreRaised
                   /\ UNCHANGED db_indexes
    /\ UNCHANGED << configVars, db_pk, db_rows, lock_held, cliVars, attemptLocals,
                    dropped, attempts, indexes_before, pk_before, uncounted, cleared >>

(***************************************************************************)
(* cli: the loop over the files, the report and the reconciliation.        *)
(***************************************************************************)
\* Mutant: the loop is left at the first failed file
Tally_StopsOnFailure ==
    /\ pc = "returned"
    /\ variant # "loader"
    /\ IF result.rc = 0
       THEN /\ success_count' = success_count + 1
            /\ total_rows_imported' = total_rows_imported + result.rows
            /\ UNCHANGED fail_count
       ELSE /\ fail_count' = fail_count + 1
            /\ UNCHANGED << success_count, total_rows_imported >>
    /\ IF file_idx < Len(tbl_files) /\ result.rc = 0
       THEN /\ file_idx' = file_idx + 1
            /\ attempts' = Append(attempts, tbl_files[file_idx + 1])
            /\ pc' = "resolve"
       ELSE /\ pc' = "report"
            /\ UNCHANGED << file_idx, attempts >>
    /\ ResetAttempt
    /\ indexes_before' = db_indexes
    /\ pk_before' = db_pk
    /\ uncounted' = uncounted + (IF result.rc = 0 THEN 0 ELSE result.rows)
    /\ UNCHANGED << configVars, dbVars, tbl_files, verify, cleared >>

\* Mutant: the rows of a failed attempt are added to the total
Tally_AddsRowsAlways ==
    /\ pc = "returned"
    /\ variant # "loader"
    /\ IF result.rc = 0
       THEN /\ success_count' = success_count + 1
            /\ total_rows_imported' = total_rows_imported + result.rows
            /\ UNCHANGED fail_count
       ELSE /\ fail_count' = fail_count + 1
            /\ total_rows_imported' = total_rows_imported + result.rows
            /\ UNCHANGED success_count
    /\ IF file_idx < Len(tbl_files)
       THEN /\ file_idx' = file_idx + 1
            /\ attempts' = Append(attempts, tbl_files[file_idx + 1])
            /\ pc' = "resolve"
       ELSE /\ pc' = "report"
            /\ UNCHANGED << file_idx, attempts >>
    /\ ResetAttempt
    /\ indexes_before' = db_indexes
    /\ pk_before' = db_pk
    /\ uncounted' = uncounted + (IF result.rc = 0 THEN 0 ELSE result.rows)
    /\ UNCHANGED << configVars, dbVars, tbl_files, verify, cleared >>

\* if result.returncode == 0: ... else: fail_count += 1; then the next file
Tally ==
    /\ pc = "returned"
    /\ variant # "loader"
    /\ IF result.rc = 0
       THEN /\ success_count' = success_count + 1
            /\ total_rows_imported' = total_rows_imported + result.rows
            /\ UNCHANGED fail_count
       ELSE /\ fail_count' = fail_count + 1
            /\ UNCHANGED << success_count, total_rows_imported >>
    /\ IF file_idx < Len(tbl_files)
       THEN /\ file_idx' = file_idx + 1
            /\ attempts' = Append(attempts, tbl_files[file_idx + 1])
            /\ pc' = "resolve"
       ELSE /\ pc' = "report"
            /\ UNCHANGED << file_idx, attempts >>
    /\ ResetAttempt
    /\ indexes_before' = db_indexes
    /\ pk_before' = db_pk
    /\ uncounted' = uncounted + (IF result.rc = 0 THEN 0 ELSE result.rows)
    /\ UNCHANGED << configVars, dbVars, tbl_files, verify, cleared >>

\* stdout of: psql -t -c 'SELECT count(1) FROM "public"."<table>";' when the
\* query ran (the number after a blank, on one line); empty when it failed
CountOutput(n) == << " " >> \o ToText(n) \o << NL >>

\* str.isdigit() on ASCII text: non-empty and decimal digits only
IsDigit(s) ==
    /\ s # << >>
    /\ \A i \in 1..Len(s) : \E d \in 1..Len(Digits) : s[i] = Digits[d]

RECURSIVE ParseInt(_)
\* int(s) of a string of decimal digits
ParseInt(s) ==
    IF s = << >> THEN 0
    ELSE ParseInt(SubSeq(s, 1, Len(s) - 1)) * 10
         + ((CHOOSE d \in 1..Len(Digits) : s[Len(s)] = Digits[d]) - 1)

\* Mutant: an unreadable count is taken as zero
DbCount_ZeroOnFailure(stdout) ==
    LET t == Strip(stdout)
    IN  IF IsDigit(t) THEN ParseInt(t) ELSE 0

\* db_count = int(stdout.strip()) if stdout.strip().isdigit() else -1
DbCount(stdout) ==
    LET t == Strip(stdout)
    IN  IF IsDigit(t) THEN ParseInt(t) ELSE -1

\* Mutant: a mismatch ends the run as an error
Verify_FatalMismatch ==
    /\ pc = "report"
    /\ \E stdout \in {CountOutput(db_rows), << >>} :
          LET db_count == DbCount(stdout)
          IN  /\ Issue("COUNT", TableName, stdout # << >>)
              /\ verify' = IF db_count = total_rows_imported THEN "pass" ELSE "warn"
    /\ pc' = IF verify' = "warn" THEN "aborted" ELSE "done"
    /\ UNCHANGED << result, restore_ctx, restore_pos, restore_calls >>
    /\ UNCHANGED << configVars, dbVars, tbl_files, file_idx, success_count,
                    fail_count, total_rows_imported, attemptLocals,
                    dropped, attempts, indexes_before, pk_before, uncounted, cleared >>

\* SELECT count(1) ...; db_count = int(stdout) if stdout.isdigit() else -1
Verify ==
    /\ pc = "report"
    /\ \E stdout \in {CountOutput(db_rows), << >>} :
          LET db_count == DbCount(stdout)
          IN  /\ Issue("COUNT", TableName, stdout # << >>)
              /\ verify' = IF db_count = total_rows_imported THEN "pass" ELSE "warn"
    /\ Goto("done")
    /\ UNCHANGED << configVars, dbVars, tbl_files, file_idx, success_count,
                    fail_count, total_rows_imported, attemptLocals,
                    dropped, attempts, indexes_before, pk_before, uncounted, cleared >>

Next ==
    \/ Clean
    \/ Scan
    \/ Resolve
    \/ LoaderTimeCall
    \/ Enumerate
    \/ SuspendLoop
    \/ SuspendDrop
    \/ PkFind
    \/ PkDrop
    \/ PkAdd
    \/ OpenSession
    \/ ReadChunk
    \/ FinishPayload
    \/ Communicate
    \/ RestoreStep
    \/ Tally
    \/ Verify

Spec == Init /\ [][Next]_vars

(***************************************************************************)
(* Properties.                                                             *)
(***************************************************************************)
CreateStmts == SelectSeq(stmts, LAMBDA e : e.k = "CREATE")
DropStmts   == SelectSeq(stmts, LAMBDA e : e.k = "DROP")
EnumStmts   == SelectSeq(stmts, LAMBDA e : e.k = "ENUM")

\* the attempt has returned the failure of the transfer step
TransferFailed == pc = "returned" /\ result.args = "copy" /\ result.rc = 1

\* C1: when the transfer step fails after backup_and_drop_indexes returned a
\* snapshot, the attempt returns as failed only after exactly one invocation
\* of restore_indexes on that snapshot: its statements are issued in order,
\* each at most once, none is skipped while the earlier ones succeed, and a
\* failing statement ends the restore (no retry).
C1_RestoreOnceAfterTransferFailure ==
    TransferFailed =>
        /\ restore_calls = 1
        /\ LET n == Len(CreateStmts)
           IN  /\ n <= Len(stored_index_sqls)
               /\ \A i \in 1..n : CreateStmts[i].a = stored_index_sqls[i]
               /\ \A i \in 1..(n - 1) : CreateStmts[i].ok
               /\ n < Len(stored_index_sqls) => n > 0 /\ ~CreateStmts[n].ok

C1_Witness ==
    /\ TransferFailed
    /\ Len(stored_index_sqls) = 2
    /\ Len(CreateStmts) = 1
    /\ restore_calls = 1

\* C2: when backup_and_drop_indexes fails after dropping one or more indexes,
\* a recreate statement has been issued for every index dropped during the
\* attempt before the attempt is reported as failed.
C2_PartialSnapshotRestored ==
    (pc = "returned" /\ result.args \in {"drop_index", "index_opt"}) =>
        \A i \in dropped :
            \E j \in 1..Len(CreateStmts) : CreateStmts[j].a = i.def \o << ";" >>

\* C3: a failed file never ends the batch: while the loop runs, the files
\* attempted so far are exactly the first file_idx files of the scan and each
\* earlier one was counted once; at the report every file of the scan has been
\* attempted exactly once and success_count + fail_count is their number.
C3_EveryFileAttemptedOnce ==
    /\ pc \in {"report", "done"} =>
          /\ attempts = tbl_files
          /\ success_count + fail_count = Len(tbl_files)
    /\ (variant # "loader" /\ pc \notin {"start", "scan", "aborted", "nofiles",
                                         "report", "done"}) =>
          /\ file_idx \in 1..Len(tbl_files)
          /\ attempts = SubSeq(tbl_files, 1, file_idx)
          /\ success_count + fail_count = file_idx - 1
    /\ \A i, j \in 1..Len(attempts) : i # j => attempts[i] # attempts[j]

C3_Witness ==
    /\ pc = "done"
    /\ Len(tbl_files) = 2
    /\ fail_count = 1
    /\ success_count = 1

\* C4: when the clear statement fails the batch is in the terminal aborted
\* state: nothing was scanned, attempted, resolved or transferred, the failed
\* DELETE is the only statement issued, no reconciliation was run, and no
\* step is ever taken from that state.
C4_AbortAtTruncate ==
    /\ [](cleared = "failed" =>
            /\ pc = "aborted"
            /\ tbl_files = << >>
            /\ attempts = << >>
            /\ partition_name = << >>
            /\ stmts = << Stmt("DELETE", TableName, FALSE) >>
            /\ success_count = 0 /\ fail_count = 0
            /\ verify = "none"
            /\ ~lock_held)
    /\ [][pc # "aborted"]_vars

C4_Witness ==
    /\ pc = "aborted"
    /\ cleared = "failed"
    /\ Cardinality(dir_files) = 2
    /\ db_indexes # {}

\* the row count and the payload a file's bytes call for
ExpectedRows(content) ==
    Count(content, NL) + (IF content[Len(content)] = NL THEN 0 ELSE 1)

ExpectedPayload(content) ==
    IF content[Len(content)] = NL THEN content ELSE Append(content, NL)

\* C5: for a non-empty file, however it was split into chunks, once the whole
\* file is streamed the reported row count is the number of line terminators
\* if the last byte is one and that number plus one otherwise, and the payload
\* is the file's bytes plus exactly one terminator in the second case only.
C5_RowCountExact ==
    (pc = "communicate" /\ file_content # << >>) =>
        /\ rows_in_file = ExpectedRows(file_content)
        /\ payload = ExpectedPayload(file_content)

C5_Witness ==
    /\ pc = "communicate"
    /\ file_content = << "x", "\n", "x" >>
    /\ rows_in_file = 2
    /\ payload = << "x", "\n", "x", "\n" >>

\* C6: a zero-byte file is streamed as an empty payload and counts no row.
C6_EmptyFileCountsNoRow ==
    (pc = "communicate" /\ file_content = << >>) =>
        /\ payload = << >>
        /\ rows_in_file = 0

\* the attempt has returned, suspend had completed, and an invocation of
\* restore_indexes ran without a failing statement
RoundTripDone ==
    /\ pc = "returned"
    /\ Len(EnumStmts) = 1 /\ EnumStmts[1].ok
    /\ \A i \in 1..Len(DropStmts) : DropStmts[i].ok
    /\ restore_calls >= 1
    /\ \A i \in 1..Len(CreateStmts) : CreateStmts[i].ok

\* C7: when suspend completes and the restore of its snapshot completes with
\* no failing statement, the auxiliary indexes of the partition are those
\* present before suspend; and no step of suspend or restore changes the
\* primary key.
C7_SuspendRestoreRoundTrip ==
    /\ [](RoundTripDone => db_indexes = indexes_before)
    /\ [][(pc \in {"suspend", "suspend_loop", "suspend_drop", "restore"}
             => (db_pk' = db_pk))]_vars

C7_Witness ==
    /\ RoundTripDone
    /\ Cardinality(indexes_before) = 2
    /\ dropped = indexes_before
    /\ db_indexes = indexes_before

\* C8: on a partition without auxiliary indexes suspend returns the empty
\* snapshot: no DROP is issued, nothing is dropped, and the attempt fails at
\* suspend only if the enumeration query itself failed; restore of an empty
\* snapshot issues no statement.
C8_NoAuxiliaryIndexes ==
    /\ indexes_before = {} =>
          /\ DropStmts = << >>
          /\ dropped = {}
          /\ stored_index_sqls = << >> /\ restore_sqls = << >>
          /\ (pc = "returned" /\ result.args = "drop_index") =>
                (Len(EnumStmts) = 1 /\ ~EnumStmts[1].ok)
    /\ stored_index_sqls = << >> => CreateStmts = << >>

C8_Witness ==
    /\ indexes_before = {}
    /\ pc = "returned"
    /\ result.rc = 0
    /\ restore_calls = 1
    /\ Len(EnumStmts) = 1

\* the three-character decimals of n: d1 d2 d3 with 100*d1 + 10*d2 + d3 = n
\* (one for n in 0..999, none for a larger n)
ThreeDigitNames(n) ==
    IF n \in 0..999
    THEN { << Digits[(n \div 100) + 1], Digits[((n \div 10) % 10) + 1],
              Digits[(n % 10) + 1] >> }
    ELSE {}

\* the quoted identifiers T_wa_ddd for the three-character decimals ddd of n
NamesFor(n) ==
    { Quoted(TableName \o << "_", "w", "a", "_" >> \o d) : d \in ThreeDigitNames(n) }

RECURSIVE LeadingThree(_)
\* the number made of the first three decimal digits of n
LeadingThree(n) == IF n < 1000 THEN n ELSE LeadingThree(n \div 10)

ResolutionFailed == pc = "returned" /\ result.args = ResolveStep(variant)

\* C10: when there is no sequence record (the name is empty) or the
\* resolution query fails, the attempt ends as failed right after the query:
\* no index statement, no primary-key statement and no transfer session was
\* issued, the database is as before, and the cli counts the file as failed
\* and goes on to the next file.
C10_ResolutionFailureStopsFile ==
    /\ [](ResolutionFailed =>
            /\ result.rc = 1
            /\ Len(stmts) = 1 /\ stmts[1].k = "SEQ"
            /\ partition_name = << >>
            /\ restore_calls = 0
            /\ db_indexes = indexes_before)
    /\ [][((pc = "resolve" /\ (db_seq = NoRecord \/ ~stmts'[Len(stmts')].ok))
             => ResolutionFailed')]_vars
    /\ [][((ResolutionFailed /\ variant # "loader") =>
              (/\ fail_count' = fail_count + 1
               /\ success_count' = success_count
               /\ IF file_idx < Len(tbl_files)
                  THEN pc' = "resolve" /\ file_idx' = file_idx + 1
                  ELSE pc' = "report"))]_vars

C10_Witness ==
    /\ ResolutionFailed
    /\ db_seq = NoRecord
    /\ file_idx = 2
    /\ fail_count = 1

\* the statements of one kind issued during this attempt
PkFindStmts  == SelectSeq(stmts, LAMBDA e : e.k = "PKFIND")
PkStmts      == SelectSeq(stmts, LAMBDA e : e.k \in {"PKDROP", "PKADD"})
SessionStmts == SelectSeq(stmts, LAMBDA e : e.k = "SESSION")

\* C11: in reorganization mode, on a partition that has no primary-key
\* constraint, a lookup that succeeds ends reset_primary_key normally: no DROP
\* CONSTRAINT and no ADD CONSTRAINT is issued during the attempt, nothing in
\* the database changes, restore_indexes is not invoked, and the attempt goes
\* on to open the transfer session; it never returns as failed at the reset.
C11_NoPrimaryKeyIsNoOp ==
    /\ [](~pk_before => PkStmts = << >>)
    /\ []((~pk_before /\ PkFindStmts # << >> /\ PkFindStmts[1].ok
            /\ pc = "returned") => result.args \notin {"reset_pkey", "index_opt"})
    /\ [][((pc = "pk_find" /\ ~db_pk /\ stmts'[Len(stmts')].ok)
             => (/\ pc' = "popen"
                 /\ restore_calls' = restore_calls
                 /\ result' = result
                 /\ UNCHANGED dbVars))]_vars

C11_Witness ==
    /\ enable_pk_reset
    /\ ~pk_before
    /\ Len(PkFindStmts) = 1 /\ PkFindStmts[1].ok
    /\ pc = "communicate"
    /\ payload # << >>

\* the last primary-key statement of the attempt failed
PkStatementFailed == PkStmts # << >> /\ ~PkStmts[Len(PkStmts)].ok

\* C12: when the DROP CONSTRAINT or the ADD CONSTRAINT statement fails, no
\* transfer session is opened in that attempt (nothing was written, no lock
\* taken, no row added), restore_indexes is invoked exactly once, the attempt
\* returns the failure of the reset step and the cli counts the file as
\* failed; and in every attempt all primary-key statements precede the
\* opening of the transfer session.
C12_PkFailureAbortsBeforeTransfer ==
    /\ [](PkStatementFailed =>
            /\ SessionStmts = << >>
            /\ stdin = << >> /\ payload = << >>
            /\ ~lock_held
            /\ pc \in {"restore", "returned"}
            /\ restore_calls = 1
            /\ pc = "returned" =>
                  /\ result.rc = 1
                  /\ result.rows = 0
                  /\ result.args = (IF variant = "loader" THEN "index_opt"
                                    ELSE "reset_pkey"))
    /\ [](\A i, j \in 1..Len(stmts) :
            (stmts[i].k = "SESSION" /\ stmts[j].k \in {"PKFIND", "PKDROP", "PKADD"})
                => j < i)
    /\ [][((PkStatementFailed /\ pc = "returned" /\ variant # "loader") =>
              (/\ fail_count' = fail_count + 1
               /\ success_count' = success_count
               /\ total_rows_imported' = total_rows_imported
               /\ db_rows' = db_rows))]_vars

C12_Witness ==
    /\ pc = "returned"
    /\ Len(PkStmts) = 2 /\ PkStmts[1].ok /\ ~PkStmts[2].ok
    /\ restore_calls = 1
    /\ Len(CreateStmts) = 2
    /\ result.args = "reset_pkey"

CountStmts == SelectSeq(stmts, LAMBDA e : e.k = "COUNT")

\* C13: the cli adds an attempt's rows to the total exactly when the attempt
\* returned success, and counts it once as success or as failed; an attempt
\* that failed at the transfer reports 0 rows.  After the last file exactly
\* one row-count query is issued; a result different from the total gives the
\* warning, and in either case the run ends in done with the tallies unchanged.
C13_TotalsAndReconciliation ==
    /\ [][((pc = "returned" /\ variant # "loader") =>
              IF result.rc = 0
              THEN /\ total_rows_imported' = total_rows_imported + result.rows
                   /\ success_count' = success_count + 1
                   /\ fail_count' = fail_count
              ELSE /\ total_rows_imported' = total_rows_imported
                   /\ success_count' = success_count
                   /\ fail_count' = fail_count + 1)]_vars
    /\ [](TransferFailed => result.rows = 0)
    /\ [](Len(CountStmts) = (IF pc = "done" THEN 1 ELSE 0))
    /\ [][(pc = "report" =>
              (/\ pc' = "done"
               /\ UNCHANGED << success_count, fail_count, total_rows_imported,
                               dbVars >>))]_vars
    /\ [](pc = "done" =>
            (verify = (IF CountStmts[1].ok /\ db_rows = total_rows_imported
                       THEN "pass" ELSE "warn")))
    /\ [][pc # "done"]_vars

C13_Witness ==
    /\ pc = "done"
    /\ success_count = 1
    /\ fail_count = 1
    /\ total_rows_imported = 2
    /\ db_rows = 4
    /\ verify = "warn"

\* C14: the files are attempted in strictly ascending lexicographic order of
\* their names: the scanned list holds exactly the directory's files in that
\* order (so it is a function of the directory's contents), an attempt starts
\* only at the scan or after the previous attempt has returned, and at the
\* report every file of the directory has been attempted.
C14_LexicographicOrder ==
    /\ [](\A i, j \in 1..Len(attempts) :
            i < j => LexLess(attempts[i], attempts[j]))
    /\ [](tbl_files # << >> =>
            /\ { tbl_files[i] : i \in 1..Len(tbl_files) } = dir_files
            /\ \A i, j \in 1..Len(tbl_files) :
                  i < j => LexLess(tbl_files[i], tbl_files[j]))
    /\ [](pc \in {"report", "done"} =>
            { attempts[i] : i \in 1..Len(attempts) } = dir_files)
    /\ [][(attempts' # attempts =>
              (/\ pc \in {"scan", "returned"}
               /\ Len(attempts') = Len(attempts) + 1
               /\ SubSeq(attempts', 1, Len(attempts)) = attempts))]_vars

C14_Witness ==
    /\ pc = "done"
    /\ attempts = << << "a", "b" >>, << "b" >> >>

\* C15: a step in which the transfer fails changes neither the rows nor the
\* indexes nor the primary key; rows change only by the clear statement or by
\* a committing session; the indexes change only by a successful DROP INDEX
\* (which removes) or a successful replayed CREATE (which adds); and from the
\* opening of the session until the first restore statement every index
\* dropped by suspend is still absent.
C15_RollbackKeepsRowsNotIndexes ==
    /\ [][((restore_ctx # "copy_fail" /\ restore_ctx' = "copy_fail") =>
              UNCHANGED << db_rows, db_indexes, db_pk >>)]_vars
    /\ [][(db_rows' # db_rows =>
              (\/ pc = "start"
               \/ pc = "communicate" /\ restore_ctx' = "final"))]_vars
    /\ [][(db_indexes' # db_indexes =>
              LET last == stmts'[Len(stmts')]
              IN  /\ Len(stmts') = Len(stmts) + 1
                  /\ last.ok
                  /\ \/ last.k = "DROP" /\ db_indexes' \subseteq db_indexes
                     \/ last.k = "CREATE" /\ db_indexes \subseteq db_indexes')]_vars
    /\ []((pc \in {"popen", "stream", "communicate"}
            \/ (pc = "restore" /\ CreateStmts = << >>))
              => db_indexes \cap dropped = {})

C15_Witness ==
    /\ pc = "restore"
    /\ restore_ctx = "copy_fail"
    /\ CreateStmts = << >>
    /\ SessionStmts # << >> /\ SessionStmts[1].ok
    /\ rows_in_file = 2
    /\ Cardinality(dropped) = 2
    /\ db_indexes = {}

\* C16: the table lock is held only while a transfer session is open (from
\* the successful write of BEGIN; LOCK ... to the end of the session): never
\* during suspend, the primary-key reset, restore, or when an attempt starts
\* or has returned; and at most one attempt is unfinished at any time.
C16_LockOnlyDuringTransfer ==
    /\ [](lock_held =>
            /\ pc \in {"stream", "communicate"}
            /\ Len(SessionStmts) = 1 /\ SessionStmts[1].ok
            /\ stmts[Len(stmts)].k = "SESSION")
    /\ [][((~lock_held /\ lock_held') => pc = "popen")]_vars
    /\ [][(attempts' # attempts => (~lock_held /\ ~lock_held'))]_vars
    /\ [](variant # "loader" =>
            /\ Len(attempts) = file_idx
            /\ Len(attempts) - (success_count + fail_count) \in {0, 1}
            /\ pc \in {"start", "scan", "aborted", "nofiles", "report", "done"}
                  => Len(attempts) = success_count + fail_count)

C16_Witness ==
    /\ lock_held
    /\ pc = "communicate"
    /\ file_idx = 2
    /\ dropped # {}

\* position of a statement kind in the order of the phases of an attempt
PhaseRank(k) ==
    IF k = "SEQ" THEN 1
    ELSE IF k = "ENUM" THEN 2
    ELSE IF k = "DROP" THEN 3
    ELSE IF k = "PKFIND" THEN 4
    ELSE IF k = "PKDROP" THEN 5
    ELSE IF k = "PKADD" THEN 6
    ELSE IF k = "SESSION" THEN 7
    ELSE IF k = "CREATE" THEN 8
    ELSE 0

AttemptRunning ==
    pc \in {"suspend", "suspend_loop", "suspend_drop", "pk_find", "pk_drop",
            "pk_add", "popen", "stream", "communicate", "restore", "returned"}

\* C17: the statements of one attempt are issued in the order resolution
\* query, enumeration, index DROPs, primary-key lookup, DROP CONSTRAINT, ADD
\* CONSTRAINT, transfer session, index recreates, each kind at most once
\* except the index DROPs and recreates: the resolution query is the first
\* statement and the only one of its kind, no recreate is issued while the
\* session is open, a session is opened after exactly one primary-key lookup
\* in reorganization mode, and no primary-key statement is issued otherwise.
C17_PhaseOrder ==
    /\ [](AttemptRunning =>
            /\ stmts # << >> /\ stmts[1].k = "SEQ"
            /\ \A i, j \in 1..Len(stmts) :
                  i < j =>
                    /\ PhaseRank(stmts[i].k) <= PhaseRank(stmts[j].k)
                    /\ PhaseRank(stmts[i].k) = PhaseRank(stmts[j].k)
                          => stmts[i].k \in {"DROP", "CREATE"}
            /\ \A i \in 1..Len(stmts) : PhaseRank(stmts[i].k) # 0)
    /\ [](pc = "resolve" => stmts = << >>)
    /\ [](CreateStmts # << >> => (~lock_held /\ pc \in {"restore", "returned"}))
    /\ [](SessionStmts # << >> =>
            Len(PkFindStmts) = (IF enable_pk_reset THEN 1 ELSE 0))
    /\ [](~enable_pk_reset => (PkFindStmts = << >> /\ PkStmts = << >>))

C17_Witness ==
    /\ pc = "returned"
    /\ result.rc = 0
    /\ enable_pk_reset
    /\ Len(stmts) = 10
    /\ Len(DropStmts) = 2 /\ Len(PkStmts) = 2 /\ Len(CreateStmts) = 2

\* what the session must have received once the file's bytes are written
ExpectedStream(content) ==
    << "BEGIN;",
       "LOCK TABLE public.<table>_wa IN SHARE UPDATE EXCLUSIVE MODE;",
       "COPY public.<partition>(fid,geom,dtg,taxi_id) FROM STDIN WITH (FORMAT text, DELIMITER E'|', NULL E'');" >>
    \o content
    \o (IF content # << >> /\ content[Len(content)] = NL THEN << >> ELSE << NL >>)
    \o << "\\.", "COMMIT;" >>

\* C18: what is written to the session is, in this order: BEGIN, the LOCK
\* TABLE of <table>_wa IN SHARE UPDATE EXCLUSIVE MODE, the COPY command with
\* its column list and delimiters, the file's bytes unchanged, one line
\* terminator when the file does not end with one, the end-of-data marker and
\* COMMIT.  While the file is streamed the session holds the three statements
\* and the bytes read so far; the stream only grows while the session is open.
C18_SessionStream ==
    /\ [](pc = "stream" =>
            /\ Len(stdin) = 3 + file_pos
            /\ stdin = SubSeq(ExpectedStream(SubSeq(file_content, 1, file_pos)),
                              1, 3 + file_pos))
    /\ [](pc = "communicate" => stdin = ExpectedStream(file_content))
    /\ [](stdin # << >> => (lock_held /\ pc \in {"stream", "communicate"}))
    /\ [][((stdin # << >> /\ stdin' # << >>) =>
              (Len(stdin') >= Len(stdin) /\ SubSeq(stdin', 1, Len(stdin)) = stdin))]_vars

C18_Witness ==
    /\ pc = "communicate"
    /\ file_content = << "x", "\n", "\n" >>
    /\ Len(stdin) = 8
    /\ stdin[1] = "BEGIN;"
    /\ stdin[8] = "COMMIT;"

\* one of the replayed statements of this attempt failed
CreateFailed == \E i \in 1..Len(CreateStmts) : ~CreateStmts[i].ok

\* C19: restore_indexes issues the statements of the snapshot in their order,
\* and a failing statement is the last one issued (the call raises).  After a
\* committed transfer the attempt returns success only when every statement
\* of the snapshot was replayed successfully; when one failed it returns
\* return code 1 naming the restore step.
C19_RestoreFailureSurfaced ==
    /\ [](LET n == Len(CreateStmts)
          IN  /\ n <= Len(stored_index_sqls)
              /\ \A i \in 1..n : CreateStmts[i].a = stored_index_sqls[i]
              /\ \A i \in 1..(n - 1) : CreateStmts[i].ok)
    /\ [][((pc = "restore" /\ Len(stmts') > Len(stmts)
             /\ ~stmts'[Len(stmts')].ok) => pc' = "returned")]_vars
    /\ []((pc = "returned" /\ restore_ctx = "final") =>
            IF CreateFailed
            THEN result.rc = 1 /\ result.args = "restore_index"
            ELSE result.rc = 0 /\ Len(CreateStmts) = Len(stored_index_sqls))
    /\ []((pc = "returned" /\ result.rc = 0) =>
            (restore_ctx = "final" /\ ~CreateFailed))

C19_Witness ==
    /\ pc = "returned"
    /\ restore_ctx = "final"
    /\ Len(stored_index_sqls) = 3
    /\ Len(CreateStmts) = 2
    /\ CreateStmts[1].ok /\ ~CreateStmts[2].ok
    /\ result.args = "restore_index"

\* the text of an index's enumerated row after the first | and up to the end
\* of the line, followed by ';'
CapturedFrom(i) ==
    LET k == FindFirst(i.def, NL, 1)
    IN  (IF k = 0 THEN i.def ELSE SubSeq(i.def, 1, k - 1)) \o << ";" >>

C21_LoaderReturnsSuccess ==
    (/\ variant = "loader"
     /\ pc = "returned"
     /\ partition_name # << >>
     /\ \A i \in 1..Len(stmts) : stmts[i].ok) => result.rc = 0

\* C22: in reorganization mode, on a partition that had a primary key, the
\* transfer session runs without the constraint: while the session is open
\* the constraint is absent, and ADD CONSTRAINT is issued only after the
\* session.
C22_PkRebuiltAfterTransfer ==
    /\ (enable_pk_reset /\ pk_before /\ lock_held) => ~db_pk
    /\ \A i, j \in 1..Len(stmts) :
          (stmts[i].k = "PKADD" /\ stmts[j].k = "SESSION") => j < i

\* the attempt returned the failure of the restore that follows a committed
\* transfer
RestoreFailedAfterCommit == pc = "returned" /\ result.args = "restore_index"

\* C23: an attempt whose transfer committed and whose restore failed returns
\* return code 1 with its row count; the cli counts it as failed and does not
\* add the rows to the total.  When the table was cleared at the start, the
\* table's row count is the total plus the rows of such attempts, so once one
\* has happened the count exceeds the total by its rows and a reconciliation
\* reports the mismatch.
C23_UncountedRows ==
    /\ [](RestoreFailedAfterCommit =>
            /\ result.rc = 1
            /\ result.rows = rows_in_file
            /\ result.rows >= 1
            /\ cleared = "ok" =>
                  db_rows = total_rows_imported + uncounted + result.rows)
    /\ [][((RestoreFailedAfterCommit /\ variant # "loader") =>
              (/\ fail_count' = fail_count + 1
               /\ success_count' = success_count
               /\ total_rows_imported' = total_rows_imported
               /\ uncounted' = uncounted + result.rows))]_vars
    /\ []((cleared = "ok" /\ pc \in {"resolve", "report", "done"}) =>
            db_rows = total_rows_imported + uncounted)
    /\ []((cleared = "ok" /\ pc = "done" /\ uncounted > 0) => verify = "warn")

C23_Witness ==
    /\ pc = "done"
    /\ cleared = "ok"
    /\ CountStmts[1].ok
    /\ fail_count = 1 /\ success_count = 1
    /\ uncounted = 2
    /\ db_rows = total_rows_imported + 2
    /\ verify = "warn"

\* C24: a transfer session is opened only with the primary key present if
\* it was present when the attempt started.  An attempt that started with
\* the constraint ends without it only after a successful DROP CONSTRAINT
\* followed by a failing ADD CONSTRAINT; then no session was opened and the
\* failing ADD CONSTRAINT is the last primary-key statement: only replayed
\* index definitions follow it, and later attempts, which start without the
\* constraint, issue no ADD CONSTRAINT.
C24_PkPresentAtTransfer ==
    /\ []((pk_before /\ SessionStmts # << >>) => db_pk)
    /\ []((pk_before /\ ~db_pk /\ pc \in {"restore", "returned"}) =>
            /\ Len(PkStmts) = 2
            /\ PkStmts[1].k = "PKDROP" /\ PkStmts[1].ok
            /\ PkStmts[2].k = "PKADD" /\ ~PkStmts[2].ok
            /\ SessionStmts = << >>
            /\ \A i, j \in 1..Len(stmts) :
                  (stmts[i].k = "PKADD" /\ i < j) => stmts[j].k = "CREATE")
    /\ [](~pk_before => (~db_pk /\ PkStmts = << >>))
    /\ [][(db_pk' # db_pk => pc \in {"pk_drop", "pk_add"})]_vars

C24_Witness ==
    /\ pc = "returned"
    /\ pk_before
    /\ ~db_pk
    /\ file_idx = 1
    /\ Len(tbl_files) = 2
    /\ Len(CreateStmts) = 1

\* C25: the clear step precedes the scan: when the directory holds no
\* matching file the run ends at the scan in a terminal error state, with no
\* file attempted and no reconciliation query issued; if clearing was enabled
\* the DELETE has succeeded and the table is empty.
C25_EmptyDirectoryAfterClear ==
    /\ [][((pc = "scan" /\ dir_files = {}) => pc' = "nofiles")]_vars
    /\ [](pc = "scan" => (clean <=> cleared = "ok"))
    /\ [](pc = "nofiles" =>
            /\ dir_files = {}
            /\ attempts = << >>
            /\ success_count = 0 /\ fail_count = 0
            /\ verify = "none" /\ CountStmts = << >>
            /\ clean => (/\ cleared = "ok"
                         /\ db_rows = 0
                         /\ stmts = << Stmt("DELETE", TableName, TRUE) >>)
            /\ ~clean => (stmts = << >> /\ db_rows \in InitialRows))
    /\ [][pc # "nofiles"]_vars

C25_Witness ==
    /\ pc = "nofiles"
    /\ clean
    /\ cleared = "ok"
    /\ db_rows = 0
    /\ db_indexes # {}

\* C26: the reconciliation passes exactly when the count query was answered
\* with the number of rows of the table and that number is the batch total;
\* a query that failed gives the warning whatever the total; the step
\* changes neither the tallies nor the database.
C26_ReconciliationOutcome ==
    /\ [](pc = "done" =>
            /\ Len(CountStmts) = 1
            /\ verify \in {"pass", "warn"}
            /\ verify = "pass" <=>
                  (CountStmts[1].ok /\ db_rows = total_rows_imported)
            /\ ~CountStmts[1].ok => verify = "warn")
    /\ [](pc # "done" => verify = "none")
    /\ [](total_rows_imported >= 0)
    /\ [][(pc = "report" =>
              UNCHANGED << success_count, fail_count, total_rows_imported,
                           uncounted, dbVars >>)]_vars

C26_Witness ==
    /\ pc = "done"
    /\ ~CountStmts[1].ok
    /\ total_rows_imported = 0
    /\ fail_count = 2
    /\ verify = "warn"

\* C27: no other sequence value resolves to the partition name that the
\* table's sequence value resolves to.
C27_ResolutionInjective ==
    partition_name # << >> =>
        \A v \in SeqValues \ {db_seq[1]} :
            Strip(ResolverOutput(TableName, << v >>)) # partition_name

====
